---- MODULE Spec2Model ----
(***************************************************************************)
(* Model of the viks key-notation parser (src/src/lib.rs, code.rs,         *)
(* modifier.rs, error.rs).                                                 *)
(*                                                                         *)
(* A string is a sequence of code points (naturals); code points below     *)
(* 128 are ASCII.  A Key is [code, modifiers] where code is the u8          *)
(* discriminant of KeyCode and modifiers the u8 bit pattern of KeyModifier. *)
(* Key::new and Display are operators; Keymap::new is run one loop         *)
(* iteration per step.                                                     *)
(***************************************************************************)
EXTENDS Integers, Sequences, FiniteSets, TLC

\* ------------------------------------------------------------------ bounds
\* Largest number of pieces concatenated into a key-sequence input.
MaxPieces == 2

\* ------------------------------------------------------- code.rs: KeyCode
Backspace == 8
Tab == 9
Enter == 13
Esc == 27
Space == 32
HyphenMinus == 45
LessThanSign == 60
GreaterThanSign == 62
Delete == 127

\* The discriminants declared by enum KeyCode.
KeyCode == {8, 9, 13, 27} \cup (32..96) \cup (123..127)

\* ------------------------------------------------- modifier.rs: KeyModifier
Shift == 1
Control == 2
Alt == 4
None == 0

\* One bit of a u8, and the bitwise operators of KeyModifier on the
\* three low bits (the only bits any KeyModifier value carries).  Both
\* operators compute on `self as u8` and transmute the u8 back.  Shift |
\* Control and Shift | Alt are the bit patterns 3 and 5, which are not
\* declared variants of the #[repr(u8)] enum; the value is modelled as the
\* byte it occupies, which is what `as u8` in BitAnd and the discriminant
\* comparison of the derived PartialEq read.
Bit(x, b) == (x \div b) % 2

BitAnd(lhs, rhs) ==
    Bit(lhs, 1) * Bit(rhs, 1)
    + 2 * (Bit(lhs, 2) * Bit(rhs, 2))
    + 4 * (Bit(lhs, 4) * Bit(rhs, 4))

Max2(a, b) == IF a >= b THEN a ELSE b

BitOr(lhs, rhs) ==
    Max2(Bit(lhs, 1), Bit(rhs, 1))
    + 2 * Max2(Bit(lhs, 2), Bit(rhs, 2))
    + 4 * Max2(Bit(lhs, 4), Bit(rhs, 4))

is_shift(m) == BitAnd(m, Shift) = Shift
is_ctrl(m) == BitAnd(m, Control) = Control
is_alt(m) == BitAnd(m, Alt) = Alt

\* ------------------------------------------------------ char / str helpers
is_ascii(s) == \A n \in 1..Len(s) : s[n] < 128
is_ascii_uppercase(c) == c \in 65..90
is_ascii_digit(c) == c \in 48..57
to_ascii_uppercase(c) == IF c \in 97..122 THEN c - 32 ELSE c
to_ascii_lowercase(c) == IF c \in 65..90 THEN c + 32 ELSE c
to_lowercase(s) == [n \in 1..Len(s) |-> to_ascii_lowercase(s[n])]

\* The punctuation arm with '>' left out.
PunctuationNoGt ==
    {33, 34, 35, 36, 37, 38, 39, 40, 41, 42, 43, 63, 95, 96, 124, 126,
     123, 125, 45, 91, 93, 44, 46, 47, 58, 59, 61, 64, 92, 94}

\* The punctuation arm of the match in Key::new:
\* ! " # $ % & ' ( ) * + ? _ ` | ~ { } - [ ] , . / : ; > = @ \ ^
Punctuation ==
    {33, 34, 35, 36, 37, 38, 39, 40, 41, 42, 43, 63, 95, 96, 124, 126,
     123, 125, 45, 91, 93, 44, 46, 47, 58, 59, 62, 61, 64, 92, 94}

\* ---------------------------------------------------------- error.rs: Error
UnsupportedKeyFormat == "unsupported key format"
FormatIsEmpty == "format is empty"
InvalidFormat == "invalid format"

NoKey == [code |-> 0, modifiers |-> 0]

\* Result<Key>: Ok(key) or Err(Error(format, cause)); calls is the sequence
\* of bytes handed to KeyCode::from_ascii on the way, panic tells that one
\* of them took the "not ascii" panic.
Ok(key, calls) ==
    [ok |-> TRUE, key |-> key, format |-> <<>>, cause |-> "",
     calls |-> calls, panic |-> FALSE]

Err(format, cause) ==
    [ok |-> FALSE, key |-> NoKey, format |-> format, cause |-> cause,
     calls |-> <<>>, panic |-> FALSE]

Panic(calls) ==
    [ok |-> FALSE, key |-> NoKey, format |-> <<>>, cause |-> "not ascii",
     calls |-> calls, panic |-> TRUE]

\* KeyCode::from_ascii: panics outside 0..128, otherwise the byte itself
\* becomes the discriminant.
from_ascii_panics(ascii) == ~(ascii \in 0..127)

from_ascii(ascii) == ascii

as_ascii(code) == code

\* The len == 1 branch with the shift-from-case inference left out.
KeyNewSingleNoShift(tag) ==
    LET tag_char == tag[1]
        tag_uppercase == to_ascii_uppercase(tag_char)
        accepted == \/ tag_uppercase \in 65..90
                    \/ tag_uppercase \in Punctuation
                    \/ is_ascii_digit(tag_uppercase)
    IN  IF ~accepted
        THEN Err(tag, UnsupportedKeyFormat)
        ELSE IF from_ascii_panics(tag_uppercase)
        THEN Panic(<<tag_uppercase>>)
        ELSE Ok([code |-> from_ascii(tag_uppercase), modifiers |-> None],
                <<tag_uppercase>>)

\* The len == 1 branch handing the character as typed, not upper-cased,
\* to from_ascii.
KeyNewSingleRawByte(tag) ==
    LET tag_char == tag[1]
        modifier == IF is_ascii_uppercase(tag_char) THEN Shift ELSE None
        tag_uppercase == to_ascii_uppercase(tag_char)
        accepted == \/ tag_uppercase \in 65..90
                    \/ tag_uppercase \in Punctuation
                    \/ is_ascii_digit(tag_uppercase)
    IN  IF ~accepted
        THEN Err(tag, UnsupportedKeyFormat)
        ELSE IF from_ascii_panics(tag_char)
        THEN Panic(<<tag_char>>)
        ELSE Ok([code |-> from_ascii(tag_char), modifiers |-> modifier],
                <<tag_char>>)

\* ------------------------------------------------------- lib.rs: Key::new
\* The len == 1 branch: shift from case, upper-casing, the match on the
\* upper-cased character.
KeyNewSingle(tag) ==
    LET tag_char == tag[1]
        modifier == IF is_ascii_uppercase(tag_char) THEN Shift ELSE None
        tag_uppercase == to_ascii_uppercase(tag_char)
        accepted == \/ tag_uppercase \in 65..90
                    \/ tag_uppercase \in Punctuation
                    \/ is_ascii_digit(tag_uppercase)
    IN  IF ~accepted
        THEN Err(tag, UnsupportedKeyFormat)
        ELSE IF from_ascii_panics(tag_uppercase)
        THEN Panic(<<tag_uppercase>>)
        ELSE Ok([code |-> from_ascii(tag_uppercase), modifiers |-> modifier],
                <<tag_uppercase>>)

\* The modifier letter with Shift in the `_` arm.
ModifierOfDefaultShift(tag, is_modded) ==
    IF is_modded
    THEN LET x == to_ascii_lowercase(tag[2])
         IN  CASE x = 97 -> Alt
               [] x = 99 -> Control
               [] OTHER -> Shift
    ELSE None

\* The modifier letter of a "<X-...>" token.
ModifierOf(tag, is_modded) ==
    IF is_modded
    THEN LET x == to_ascii_lowercase(tag[2])
         IN  CASE x = 97 -> Alt
               [] x = 99 -> Control
               [] x = 115 -> Shift
               [] OTHER -> None
    ELSE None

StrEnter == <<101, 110, 116, 101, 114>>
StrCr == <<99, 114>>
StrTab == <<116, 97, 98>>
StrEsc == <<101, 115, 99>>
StrLeader == <<108, 101, 97, 100, 101, 114>>
StrSpace == <<115, 112, 97, 99, 101>>
StrBs == <<98, 115>>
StrDel == <<100, 101, 108>>
StrLt == <<108, 116>>

\* The match on the lower-cased base name; 0 stands for the `_` arm.
AliasCode(name) ==
    CASE name = StrEnter \/ name = StrCr -> Enter
      [] name = StrTab -> Tab
      [] name = StrEsc -> Esc
      [] name = StrLeader \/ name = StrSpace -> Space
      [] name = StrBs -> Backspace
      [] name = StrDel -> Delete
      [] name = StrLt -> LessThanSign
      [] OTHER -> 0

\* The base matched as written, case-sensitively.
BaseAsWritten(base) == base

\* base.to_lowercase()
BaseLower(base) == to_lowercase(base)

RECURSIVE KeyNew(_)
KeyNew(tag) ==
    IF ~is_ascii(tag) THEN Err(tag, UnsupportedKeyFormat)
    ELSE IF Len(tag) = 0 THEN Err(tag, FormatIsEmpty)
    ELSE IF Len(tag) = 1 THEN KeyNewSingle(tag)
    ELSE
      LET is_special == tag[1] = LessThanSign /\ tag[Len(tag)] = GreaterThanSign
      IN
      IF ~is_special \/ Len(tag) = 2 THEN Err(tag, UnsupportedKeyFormat)
      ELSE
        LET is_modded == tag[3] = HyphenMinus
            base == IF is_modded
                    THEN SubSeq(tag, 4, Len(tag) - 1)
                    ELSE SubSeq(tag, 2, Len(tag) - 1)
            modifier == ModifierOf(tag, is_modded)
        IN
        IF Len(base) = 1
        THEN LET key == KeyNew(base)
             IN  IF key.ok
                 THEN [key EXCEPT !.key.modifiers = BitOr(@, modifier)]
                 ELSE key
        ELSE LET code == AliasCode(BaseLower(base))
             IN  IF code = 0
                 THEN Err(tag, UnsupportedKeyFormat)
                 ELSE Ok([code |-> code, modifiers |-> modifier], <<>>)

\* ------------------------------------------------ lib.rs: Display for Key
StrOfCode(code) ==
    CASE code = Enter -> <<67, 82>>
      [] code = Tab -> <<84, 65, 66>>
      [] code = Esc -> <<69, 83, 67>>
      [] code = Space -> <<83, 80, 65, 67, 69>>
      [] code = Backspace -> <<66, 83>>
      [] code = Delete -> <<68, 69, 76>>
      [] code = LessThanSign -> <<76, 84>>
      [] OTHER -> <<>>

IsSpecialCode(code) ==
    code \in {Enter, Tab, Esc, Space, Backspace, Delete, LessThanSign}

\* The base glyph in lower case whenever Alt or Control is set.
GlyphLowerWhenModded(key) ==
    LET is_shft == is_shift(key.modifiers)
        is_alpha == key.code \in 65..90
        is_modded == is_alt(key.modifiers) \/ is_ctrl(key.modifiers)
    IN  IF IsSpecialCode(key.code) THEN StrOfCode(key.code)
        ELSE IF (~is_shft \/ is_modded) /\ is_alpha
        THEN <<to_ascii_lowercase(as_ascii(key.code))>>
        ELSE <<as_ascii(key.code)>>

\* The first `let code = match &self.code`: the base glyph.
Glyph(key) ==
    LET is_shft == is_shift(key.modifiers)
        is_alpha == key.code \in 65..90
    IN  IF IsSpecialCode(key.code) THEN StrOfCode(key.code)
        ELSE IF ~is_shft /\ is_alpha
        THEN <<to_ascii_lowercase(as_ascii(key.code))>>
        ELSE <<as_ascii(key.code)>>

\* The prefix without the "s-" arm.
PrefixedNoShift(key) ==
    IF is_alt(key.modifiers) THEN <<97, 45>> \o Glyph(key)
    ELSE IF is_ctrl(key.modifiers) THEN <<99, 45>> \o Glyph(key)
    ELSE Glyph(key)

\* The second `let code`: at most one prefix, Alt first.
Prefixed(key) ==
    LET is_shft == is_shift(key.modifiers)
        is_alpha == key.code \in 65..90
    IN  IF is_alt(key.modifiers) THEN <<97, 45>> \o Glyph(key)
        ELSE IF is_ctrl(key.modifiers) THEN <<99, 45>> \o Glyph(key)
        ELSE IF is_shft /\ ~is_alpha THEN <<115, 45>> \o Glyph(key)
        ELSE Glyph(key)

DisplayKey(key) ==
    LET is_special == IsSpecialCode(key.code)
        is_modded == is_alt(key.modifiers) \/ is_ctrl(key.modifiers)
        is_shft == is_shift(key.modifiers)
        is_alpha == key.code \in 65..90
    IN  IF is_special \/ is_modded \/ (is_shft /\ ~is_alpha)
        THEN <<LessThanSign>> \o Prefixed(key) \o <<GreaterThanSign>>
        ELSE Prefixed(key)

\* One iteration that skips a rejected token and carries on.
KeymapStepSkip(in_tag, buf, keys, c) ==
    LET in_tag1 == in_tag \/ c = LessThanSign
        buf1 == IF in_tag1 THEN Append(buf, c) ELSE buf
        bare == KeyNew(<<c>>)
        closes == c = GreaterThanSign /\ in_tag1
        tagged == KeyNew(buf1)
    IN  IF ~in_tag1
        THEN [failed |-> FALSE, res |-> bare, in_tag |-> in_tag1,
              buf |-> buf1,
              keys |-> IF bare.ok THEN Append(keys, bare.key) ELSE keys,
              calls |-> bare.calls]
        ELSE IF closes
        THEN [failed |-> FALSE, res |-> tagged, in_tag |-> FALSE,
              buf |-> <<>>,
              keys |-> IF tagged.ok THEN Append(keys, tagged.key) ELSE keys,
              calls |-> tagged.calls]
        ELSE [failed |-> FALSE, res |-> Ok(NoKey, <<>>), in_tag |-> in_tag1,
              buf |-> buf1, keys |-> keys, calls |-> <<>>]

\* ------------------------------------------------- lib.rs: Keymap::new
\* One iteration of `for c in s.chars()`.  failed tells that a `?` returned
\* from the function, res is then the error it returned.
KeymapStep(in_tag, buf, keys, c) ==
    LET in_tag1 == in_tag \/ c = LessThanSign
        buf1 == IF in_tag1 THEN Append(buf, c) ELSE buf
        bare == KeyNew(<<c>>)
        closes == c = GreaterThanSign /\ in_tag1
        tagged == KeyNew(buf1)
    IN  IF ~in_tag1 /\ ~bare.ok
        THEN [failed |-> TRUE, res |-> bare, in_tag |-> in_tag1,
              buf |-> buf1, keys |-> keys, calls |-> bare.calls]
        ELSE IF ~in_tag1
        THEN [failed |-> FALSE, res |-> bare, in_tag |-> in_tag1,
              buf |-> buf1, keys |-> Append(keys, bare.key),
              calls |-> bare.calls]
        ELSE IF closes /\ ~tagged.ok
        THEN [failed |-> TRUE, res |-> tagged, in_tag |-> FALSE,
              buf |-> buf1, keys |-> keys, calls |-> tagged.calls]
        ELSE IF closes
        THEN [failed |-> FALSE, res |-> tagged, in_tag |-> FALSE,
              buf |-> <<>>, keys |-> Append(keys, tagged.key),
              calls |-> tagged.calls]
        ELSE [failed |-> FALSE, res |-> Ok(NoKey, <<>>), in_tag |-> in_tag1,
              buf |-> buf1, keys |-> keys, calls |-> <<>>]

\* Result<Keymap>.
OkMap(keys) ==
    [ok |-> TRUE, keys |-> keys, format |-> <<>>, cause |-> ""]

ErrMap(format, cause) ==
    [ok |-> FALSE, keys |-> <<>>, format |-> format, cause |-> cause]

\* The end of Keymap::new without the unterminated-bracket check.
KeymapEndNoCheck(s, in_tag, keys) == OkMap(keys)

\* The end of Keymap::new reporting an open bracket with the key cause.
KeymapEndKeyCause(s, in_tag, keys) ==
    IF in_tag THEN ErrMap(s, UnsupportedKeyFormat) ELSE OkMap(keys)

\* What follows the loop: the unterminated-bracket check and Ok(Keymap(keys)).
KeymapEnd(s, in_tag, keys) ==
    IF in_tag THEN ErrMap(s, InvalidFormat) ELSE OkMap(keys)

\* Keymap::new as a whole, the loop folded over the characters from n on.
RECURSIVE KeymapFrom(_, _, _, _, _)
KeymapFrom(s, n, in_tag, buf, keys) ==
    IF n > Len(s) THEN KeymapEnd(s, in_tag, keys)
    ELSE LET st == KeymapStep(in_tag, buf, keys, s[n])
         IN  IF st.failed
             THEN ErrMap(st.res.format, st.res.cause)
             ELSE KeymapFrom(s, n + 1, st.in_tag, st.buf, st.keys)

KeymapNew(s) == KeymapFrom(s, 1, FALSE, <<>>, <<>>)

\* --------------------------------------------- lib.rs: Display for Keymap
\* The fold with the accumulator appended after each key.
RECURSIVE DisplayKeymapReversed(_)
DisplayKeymapReversed(ks) ==
    IF ks = <<>> THEN <<>>
    ELSE DisplayKey(ks[Len(ks)]) \o DisplayKeymapReversed(SubSeq(ks, 1, Len(ks) - 1))

\* fold(String::new(), |acc, k| format!("{acc}{k}")): the accumulator of
\* all keys but the last, then the last key's rendering.
RECURSIVE DisplayKeymap(_)
DisplayKeymap(ks) ==
    IF ks = <<>> THEN <<>>
    ELSE DisplayKeymap(SubSeq(ks, 1, Len(ks) - 1)) \o DisplayKey(ks[Len(ks)])

\* ---------------------------------------------------------------- inputs
\* Code points offered as single characters: all of ASCII and one
\* non-ASCII character.
Chars == (0..127) \cup {255}

\* Characters offered in the modifier position of "<X-base>".
ModChars == 0..127

Upper(s) == [n \in 1..Len(s) |-> to_ascii_uppercase(s[n])]
Capital(s) == [n \in 1..Len(s) |-> IF n = 1 THEN to_ascii_uppercase(s[n]) ELSE s[n]]

Aliases ==
    {StrEnter, StrCr, StrTab, StrEsc, StrLeader, StrSpace, StrBs, StrDel, StrLt}

\* Names that are no alias: "boo", "aa", "ente", "s-a".
BadNames == {<<98, 111, 111>>, <<97, 97>>, <<101, 110, 116, 101>>, <<115, 45, 97>>}

Names ==
    UNION {{n, Upper(n), Capital(n)} : n \in Aliases \cup BadNames}

Bases == {<<c>> : c \in Chars} \cup Names \cup {<<>>}

\* "<base>" when xs is empty, "<X-base>" when xs is <<X>>.
Bracket(xs, base) ==
    IF xs = <<>>
    THEN <<LessThanSign>> \o base \o <<GreaterThanSign>>
    ELSE <<LessThanSign>> \o xs \o <<HyphenMinus>> \o base \o <<GreaterThanSign>>

\* The spelling chosen to stand for all spellings of a bracket token that
\* differ in alias or letter case: lower-case modifier letter, lower-case
\* name, "enter" for "cr" and "leader" for "space".
CanonName(name) ==
    IF name = StrCr THEN StrEnter
    ELSE IF name = StrSpace THEN StrLeader
    ELSE name

CanonBase(base) ==
    IF Len(base) > 1 /\ to_lowercase(base) \in Aliases
    THEN CanonName(to_lowercase(base))
    ELSE base

CanonMod(xs) == to_lowercase(xs)

\* A piece of input: its spelling and the spelling standing for it.
Piece(xs, base) ==
    <<Bracket(xs, base), Bracket(CanonMod(xs), CanonBase(base))>>

Same(s) == <<s, s>>

\* Inputs of Key::new: every single character, every "<base>" and
\* "<X-base>", and malformed tokens.
KeyPairs ==
    {Same(<<>>)}
    \cup {Same(<<c>>) : c \in Chars}
    \cup {Piece(<<>>, b) : b \in Bases}
    \cup {Piece(<<x>>, b) : x \in ModChars, b \in Bases}
    \cup {Same(<<LessThanSign, 66>>), Same(<<97, 97>>),
          Same(<<97, GreaterThanSign>>)}

\* Pieces of key-sequence inputs.
SeqChars == {97, 65, 115, 44, 45, 32, 255, LessThanSign, GreaterThanSign}

SeqMods == {<<>>, <<83>>, <<120>>}

SeqNames ==
    {StrCr, Capital(StrEnter), StrLeader, Upper(StrSpace), StrLt,
     <<98, 111, 111>>, <<97>>}

SeqPieces ==
    {Same(<<c>>) : c \in SeqChars}
    \cup {Piece(xs, b) : xs \in SeqMods, b \in SeqNames}
    \cup {Same(<<LessThanSign>> \o StrLeader)}

RECURSIVE Concat(_, _)
Concat(ps, k) ==
    IF ps = <<>> THEN <<>> ELSE Head(ps)[k] \o Concat(Tail(ps), k)

SeqPairs ==
    UNION {{<<Concat(ps, 1), Concat(ps, 2)>> : ps \in [1..n -> SeqPieces]}
           : n \in 0..MaxPieces}

\* The inputs of the crate's own tests that are longer than MaxPieces.
StrHiWorld == <<72, 105, 87, 111, 114, 108, 100>>
StrHappyNewYear == <<72, 97, 112, 112, 121, 78, 101, 119, 89, 101, 97, 114>>

ExamplePairs ==
    {<<Bracket(<<>>, StrCr) \o StrHiWorld \o Bracket(<<>>, StrEnter),
       Bracket(<<>>, StrEnter) \o StrHiWorld \o Bracket(<<>>, StrCr)>>,
     Same(Bracket(<<>>, StrLt) \o StrHappyNewYear \o <<GreaterThanSign>>),
     Same(Bracket(<<>>, StrLt) \o <<GreaterThanSign>>),
     Same(<<LessThanSign>> \o StrLeader)}

InputPairs == KeyPairs \cup SeqPairs \cup ExamplePairs

\* ----------------------------------------------------------------- state
VARIABLES
    input,      \* the string handed to Key::new and to Keymap::new
    alt,        \* a second spelling of input
    pc,         \* "start", "parsed", "shown", "reparsed", "scan", "done",
                \* "compared", "mapShown", "mapReparsed"
    keyRes,     \* Key::new(input)
    shown,      \* keyRes.key.to_string()
    reparsed,   \* Key::new(shown)
    pos,        \* number of characters of input the loop has consumed
    in_tag,     \* Keymap::new: in_tag
    buf,        \* Keymap::new: buf
    keys,       \* Keymap::new: keys
    calls,      \* bytes handed to KeyCode::from_ascii so far by Key::new(input),
                \* Key::new(shown) and Keymap::new(input)
    mapRes,     \* Keymap::new(input)
    altRes,     \* Keymap::new(alt)
    shownMap,   \* the Keymap of mapRes rendered by to_string()
    remapRes    \* Keymap::new(shownMap)

vars ==
    <<input, alt, pc, keyRes, shown, reparsed, pos, in_tag, buf, keys,
      calls, mapRes, altRes, shownMap, remapRes>>

NoRes == Err(<<>>, "")
NoMap == ErrMap(<<>>, "")

Init ==
    /\ \E pr \in InputPairs : input = pr[1] /\ alt = pr[2]
    /\ pc = "start"
    /\ keyRes = NoRes
    /\ shown = <<>>
    /\ reparsed = NoRes
    /\ pos = 0
    /\ in_tag = FALSE
    /\ buf = <<>>
    /\ keys = <<>>
    /\ calls = {}
    /\ mapRes = NoMap
    /\ altRes = NoMap
    /\ shownMap = <<>>
    /\ remapRes = NoMap

Range(s) == {s[n] : n \in 1..Len(s)}

\* Key::new(input)
KeyNewCall ==
    /\ pc = "start"
    /\ keyRes' = KeyNew(input)
    /\ calls' = calls \cup Range(keyRes'.calls)
    /\ pc' = "parsed"
    /\ UNCHANGED <<input, alt, shown, reparsed, pos, in_tag, buf, keys,
                   mapRes, altRes, shownMap, remapRes>>

\* key.to_string() on the key Key::new returned
DisplayCall ==
    /\ pc = "parsed"
    /\ keyRes.ok
    /\ shown' = DisplayKey(keyRes.key)
    /\ pc' = "shown"
    /\ UNCHANGED <<input, alt, keyRes, reparsed, pos, in_tag, buf, keys,
                   calls, mapRes, altRes, shownMap, remapRes>>

\* Key::new on the rendered string
ReparseCall ==
    /\ pc = "shown"
    /\ reparsed' = KeyNew(shown)
    /\ calls' = calls \cup Range(reparsed'.calls)
    /\ pc' = "reparsed"
    /\ UNCHANGED <<input, alt, keyRes, shown, pos, in_tag, buf, keys,
                   mapRes, altRes, shownMap, remapRes>>

\* Keymap::new(input): entry, the three `let mut`
KeymapBegin ==
    /\ pc = "start"
    /\ pc' = "scan"
    /\ pos' = 0 /\ in_tag' = FALSE /\ buf' = <<>> /\ keys' = <<>>
    /\ UNCHANGED <<input, alt, keyRes, shown, reparsed, calls, mapRes, altRes, shownMap, remapRes>>

\* Keymap::new(input): one iteration of the loop
KeymapLoop ==
    /\ pc = "scan"
    /\ pos < Len(input)
    /\ LET st == KeymapStep(in_tag, buf, keys, input[pos + 1])
       IN  /\ pos' = pos + 1
           /\ in_tag' = st.in_tag
           /\ buf' = st.buf
           /\ keys' = st.keys
           /\ calls' = calls \cup Range(st.calls)
           /\ IF st.failed
              THEN /\ mapRes' = ErrMap(st.res.format, st.res.cause)
                   /\ pc' = "done"
              ELSE /\ mapRes' = mapRes
                   /\ pc' = "scan"
    /\ UNCHANGED <<input, alt, keyRes, shown, reparsed, altRes, shownMap, remapRes>>

\* Keymap::new(input): after the loop
KeymapReturn ==
    /\ pc = "scan"
    /\ pos = Len(input)
    /\ mapRes' = KeymapEnd(input, in_tag, keys)
    /\ pc' = "done"
    /\ UNCHANGED <<input, alt, keyRes, shown, reparsed, pos, in_tag, buf,
                   keys, calls, altRes, shownMap, remapRes>>

\* Keymap::new(alt)
KeymapAlt ==
    /\ pc = "done"
    /\ altRes' = KeymapNew(alt)
    /\ pc' = "compared"
    /\ UNCHANGED <<input, alt, keyRes, shown, reparsed, pos, in_tag, buf,
                   keys, calls, mapRes, shownMap, remapRes>>

\* keymap.to_string() on the Keymap that Keymap::new returned
KeymapDisplayCall ==
    /\ pc = "done"
    /\ mapRes.ok
    /\ shownMap' = DisplayKeymap(mapRes.keys)
    /\ pc' = "mapShown"
    /\ UNCHANGED <<input, alt, keyRes, shown, reparsed, pos, in_tag, buf,
                   keys, calls, mapRes, altRes, remapRes>>

\* Keymap::new on the rendered string
KeymapReparseCall ==
    /\ pc = "mapShown"
    /\ remapRes' = KeymapNew(shownMap)
    /\ pc' = "mapReparsed"
    /\ UNCHANGED <<input, alt, keyRes, shown, reparsed, pos, in_tag, buf,
                   keys, calls, mapRes, altRes, shownMap>>

Next ==
    \/ KeyNewCall
    \/ DisplayCall
    \/ ReparseCall
    \/ KeymapBegin
    \/ KeymapLoop
    \/ KeymapReturn
    \/ KeymapAlt
    \/ KeymapDisplayCall
    \/ KeymapReparseCall

Spec == Init /\ [][Next]_vars

\* ================================================================ claims
Letters == 65..90

KeyOf(code, modifiers) == [code |-> code, modifiers |-> modifiers]

\* C1: for every ASCII letter, Key::new of the bare upper-case letter, of
\* "<s-" lower-case letter ">" and of "<s-" upper-case letter ">" succeed
\* with the same Key, the letter's KeyCode with modifiers exactly Shift; the
\* bare lower-case letter gives the same KeyCode with no modifier.
C1_ShiftLetterForms ==
    pc = "parsed" =>
        \A c \in Letters :
            /\ input \in {<<c>>, Bracket(<<115>>, <<c + 32>>), Bracket(<<115>>, <<c>>)}
                   => keyRes.ok /\ keyRes.key = KeyOf(c, Shift)
            /\ input = <<c + 32>>
                   => keyRes.ok /\ keyRes.key = KeyOf(c, None)
                      /\ keyRes.key # KeyOf(c, Shift)

C1_Witness ==
    /\ pc = "parsed"
    /\ input = Bracket(<<115>>, <<122>>)
    /\ keyRes.ok
    /\ keyRes.key = KeyOf(90, Shift)

\* C2: whenever Key::new returned a Key, Key::new of its rendering succeeds
\* and returns an equal Key.
C2_RoundTrip ==
    pc = "reparsed" => reparsed.ok /\ reparsed.key = keyRes.key

C2_Witness ==
    /\ pc = "reparsed"
    /\ keyRes.key = KeyOf(49, Shift)
    /\ reparsed.key = KeyOf(49, Shift)

\* The glyph character of a rendered letter key: the only character of a
\* bare rendering, the character before '>' of a bracketed one.
GlyphChar(str) ==
    IF Len(str) = 1 THEN str[1] ELSE str[Len(str) - 1]

IsLetterKey(key) == key.code \in Letters

HasShift(m) == m \in {1, 3, 5, 7}
HasAltOrControl(m) == m \in {2, 3, 4, 5, 6, 7}

\* C3 as stated: the glyph of a letter Key is lower case without Shift,
\* upper case when Shift is the sole modifier, and lower case whenever Alt
\* or Control is set.
C3_Original ==
    (pc = "shown" /\ IsLetterKey(keyRes.key)) =>
        GlyphChar(shown) =
            IF HasShift(keyRes.key.modifiers) /\ ~HasAltOrControl(keyRes.key.modifiers)
            THEN keyRes.key.code
            ELSE keyRes.key.code + 32

\* C3 amended: the glyph of a letter Key is lower case without Shift and
\* upper case with Shift, whether or not Alt or Control is set; a Key with
\* code A and modifiers {Shift, Control} renders as "<c-A>".
C3_GlyphCase ==
    (pc = "shown" /\ IsLetterKey(keyRes.key)) =>
        /\ GlyphChar(shown) =
              IF HasShift(keyRes.key.modifiers)
              THEN keyRes.key.code
              ELSE keyRes.key.code + 32
        /\ keyRes.key = KeyOf(65, 3)
              => shown = <<LessThanSign, 99, HyphenMinus, 65, GreaterThanSign>>

C3_Witness ==
    /\ pc = "shown"
    /\ keyRes.key = KeyOf(65, 3)
    /\ shown = <<LessThanSign, 99, HyphenMinus, 65, GreaterThanSign>>

\* ------------------------------------------------------------ sequences
\* The input has a '<' with no '>' anywhere after it.
UnclosedLt(s) ==
    \E p \in 1..Len(s) :
        /\ s[p] = LessThanSign
        /\ \A q \in (p + 1)..Len(s) : s[q] # GreaterThanSign

\* Position of the first '>' of s, 0 when there is none.
FirstGt(s) ==
    IF \E q \in 1..Len(s) : s[q] = GreaterThanSign
    THEN CHOOSE q \in 1..Len(s) :
             /\ s[q] = GreaterThanSign
             /\ \A r \in 1..(q - 1) : s[r] # GreaterThanSign
    ELSE 0

\* The tokens of a key sequence as the grammar describes them: a '<' opens
\* a token that runs to the first '>' after it, any other character is a
\* token by itself; an unclosed '<' makes the rest of the input the last,
\* open, token.
RECURSIVE Tokens(_)
Tokens(s) ==
    IF s = <<>> THEN <<>>
    ELSE IF s[1] # LessThanSign THEN <<<<s[1]>>>> \o Tokens(Tail(s))
    ELSE IF FirstGt(s) = 0 THEN <<s>>
    ELSE <<SubSeq(s, 1, FirstGt(s))>> \o Tokens(SubSeq(s, FirstGt(s) + 1, Len(s)))

IsOpen(tok) == tok[1] = LessThanSign /\ tok[Len(tok)] # GreaterThanSign

\* The tokens that were completed, i.e. all but an open last one.
Completed(s) == SelectSeq(Tokens(s), LAMBDA t : ~IsOpen(t))

\* Index of the first completed token Key::new rejects, 0 when none.
FirstBad(toks) ==
    IF \E k \in 1..Len(toks) : ~KeyNew(toks[k]).ok
    THEN CHOOSE k \in 1..Len(toks) :
             /\ ~KeyNew(toks[k]).ok
             /\ \A j \in 1..(k - 1) : KeyNew(toks[j]).ok
    ELSE 0

RECURSIVE TotalLen(_, _)
TotalLen(toks, k) == IF k = 0 THEN 0 ELSE Len(toks[k]) + TotalLen(toks, k - 1)

\* C4 as stated: every error of Key::new carries "unsupported key format",
\* empty input included; besides it only "invalid format" occurs, and only
\* from Keymap::new for an unterminated bracket.
C4_Original ==
    /\ (pc \in {"parsed", "shown", "reparsed"} /\ ~keyRes.ok)
           => keyRes.cause = UnsupportedKeyFormat
    /\ (pc \in {"done", "compared"} /\ ~mapRes.ok)
           => /\ mapRes.cause \in {UnsupportedKeyFormat, InvalidFormat}
              /\ mapRes.cause = InvalidFormat => UnclosedLt(input)

\* C4 amended: an error of Key::new carries "format is empty" for the empty
\* input and "unsupported key format" for every other rejected input
\* (non-ASCII, unrecognized single character, malformed bracket, unrecognized
\* alias); Keymap::new adds "invalid format", exactly when the scan ends
\* inside an unterminated bracket, and never yields "format is empty".
C4_Causes ==
    /\ (pc \in {"parsed", "shown", "reparsed"} /\ ~keyRes.ok)
           => /\ ~keyRes.panic
              /\ keyRes.cause =
                    IF input = <<>> THEN FormatIsEmpty ELSE UnsupportedKeyFormat
    /\ (pc \in {"done", "compared"} /\ ~mapRes.ok)
           => /\ mapRes.cause \in {UnsupportedKeyFormat, InvalidFormat}
              /\ mapRes.cause = InvalidFormat
                    <=> (UnclosedLt(input) /\ FirstBad(Completed(input)) = 0)

C4_Witness ==
    /\ pc = "parsed"
    /\ input = <<>>
    /\ ~keyRes.ok
    /\ keyRes.cause = FormatIsEmpty

\* C5: Keymap::new fails whenever the input has a '<' with no later '>',
\* which is exactly when a scan that gets to the end of the input is still
\* in bracket mode; when all tokens completed before were valid the error
\* is the unterminated-bracket error and carries the whole input.
C5_Unterminated ==
    /\ (pc = "scan" /\ pos = Len(input)) => (in_tag <=> UnclosedLt(input))
    /\ (pc \in {"done", "compared"} /\ UnclosedLt(input))
           => /\ ~mapRes.ok
              /\ mapRes.keys = <<>>
              /\ FirstBad(Completed(input)) = 0
                    => mapRes = ErrMap(input, InvalidFormat)

C5_Witness ==
    /\ pc = "done"
    /\ input = <<LessThanSign>> \o StrLeader
    /\ mapRes = ErrMap(input, InvalidFormat)

\* C6: when some completed token is rejected by Key::new, Keymap::new stops
\* right after the first such token in scan order and returns that token's
\* error: not a later token's, not the unterminated-bracket error even when
\* a later '<' is never closed, and no Keymap.
C6_FirstInvalidToken ==
    (pc \in {"done", "compared"} /\ FirstBad(Completed(input)) # 0) =>
        LET toks == Completed(input)
            k == FirstBad(toks)
            e == KeyNew(toks[k])
        IN  /\ ~mapRes.ok
            /\ mapRes.keys = <<>>
            /\ mapRes.format = e.format
            /\ mapRes.cause = e.cause
            /\ mapRes.cause # InvalidFormat
            /\ pos = TotalLen(toks, k)
            /\ Len(keys) = k - 1

C6_Witness ==
    /\ pc = "done"
    /\ input = <<32>> \o <<LessThanSign>> \o StrLeader
    /\ UnclosedLt(input)
    /\ mapRes = ErrMap(<<32>>, UnsupportedKeyFormat)
    /\ pos = 1

\* C7: two inputs of Keymap::new that differ only in the alias written for a
\* named key (enter/cr, leader/space) or in the letter case of an alias or
\* of a modifier letter either both fail or give Keymaps of the same
\* length with equal Keys in the same order.  alt is input with every such
\* token respelled in lower case with "enter" and "leader".
C7_AliasEquivalence ==
    pc = "compared" =>
        /\ mapRes.ok = altRes.ok
        /\ mapRes.ok =>
              /\ Len(mapRes.keys) = Len(altRes.keys)
              /\ \A n \in 1..Len(mapRes.keys) : mapRes.keys[n] = altRes.keys[n]

C7_Witness ==
    /\ pc = "compared"
    /\ input = Bracket(<<>>, StrCr) \o Bracket(<<83>>, Upper(StrSpace))
    /\ alt = Bracket(<<>>, StrEnter) \o Bracket(<<115>>, StrLeader)
    /\ mapRes.ok
    /\ altRes.keys = <<KeyOf(Enter, None), KeyOf(Space, Shift)>>

HappyNewYearKeys ==
    <<KeyOf(60, None), KeyOf(72, Shift), KeyOf(65, None), KeyOf(80, None),
      KeyOf(80, None), KeyOf(89, None), KeyOf(78, Shift), KeyOf(69, None),
      KeyOf(87, None), KeyOf(89, Shift), KeyOf(69, None), KeyOf(65, None),
      KeyOf(82, None), KeyOf(62, None)>>

\* C8: in Keymap::new a '>' met in bracket mode ends the token (the first
\* '>' after the opening '<' does), a '>' met outside bracket mode is no
\* error but the bare token giving GreaterThanSign (62) without modifiers;
\* "<lt>>" gives [LessThanSign, GreaterThanSign] and "<lt>HappyNewYear>"
\* the <lt> key, the twelve letter keys and the GreaterThanSign key.
C8_GreaterThan ==
    /\ [](pc \in {"done", "compared"} =>
            /\ input = Bracket(<<>>, StrLt) \o <<GreaterThanSign>>
                  => mapRes = OkMap(<<KeyOf(60, None), KeyOf(62, None)>>)
            /\ input = Bracket(<<>>, StrLt) \o StrHappyNewYear \o <<GreaterThanSign>>
                  => mapRes = OkMap(HappyNewYearKeys))
    /\ [][(pc = "scan" /\ pos < Len(input) /\ input[pos + 1] = GreaterThanSign) =>
            IF in_tag
            THEN /\ ~in_tag'
                 /\ pc' = "scan" => buf' = <<>> /\ Len(keys') = Len(keys) + 1
                 /\ pc' = "done" => ~mapRes'.ok /\ mapRes'.cause = UnsupportedKeyFormat
            ELSE /\ pc' = "scan"
                 /\ ~in_tag'
                 /\ buf' = buf
                 /\ keys' = Append(keys, KeyOf(62, None))]_vars

C8_Witness ==
    /\ pc = "done"
    /\ input = Bracket(<<>>, StrLt) \o StrHappyNewYear \o <<GreaterThanSign>>
    /\ mapRes.ok
    /\ Len(mapRes.keys) = 14
    /\ mapRes.keys[14] = KeyOf(62, None)

\* C9: for a token "<X-base>" whose X is an ASCII character other than
\* a, c, s in either case, Key::new gives the Key of the unmodified token:
\* that of base when base is one valid character, that of "<base>" when
\* base is a named alias, and it fails only when base is neither.
C9_UnknownModifier ==
    (/\ pc = "parsed"
     /\ Len(input) >= 4
     /\ input[1] = LessThanSign
     /\ input[3] = HyphenMinus
     /\ input[Len(input)] = GreaterThanSign
     /\ input[2] \in (0..127) \ {97, 99, 115, 65, 67, 83}) =>
        LET base == SubSeq(input, 4, Len(input) - 1)
            one == Len(base) = 1 /\ KeyNew(base).ok
            named == to_lowercase(base) \in Aliases
        IN  /\ one => keyRes.ok /\ keyRes.key = KeyNew(base).key
            /\ named => keyRes.ok /\ keyRes.key = KeyNew(Bracket(<<>>, base)).key
            /\ keyRes.ok => one \/ named

C9_Witness ==
    /\ pc = "parsed"
    /\ input = Bracket(<<120>>, StrCr)
    /\ keyRes.ok
    /\ keyRes.key = KeyOf(Enter, None)

\* C10: every byte handed to KeyCode::from_ascii by Key::new or Keymap::new
\* is in 0..127 and is a declared KeyCode discriminant (no lower-case
\* letter, no control code without a variant): the panic is never taken
\* and every Key made has a declared KeyCode.
C10_FromAsciiDeclared ==
    /\ calls \subseteq (0..127)
    /\ calls \subseteq KeyCode
    /\ calls \cap (97..122) = {}
    /\ ~keyRes.panic /\ ~reparsed.panic
    /\ keyRes.ok => keyRes.key.code \in KeyCode
    /\ reparsed.ok => reparsed.key.code \in KeyCode
    /\ \A n \in 1..Len(keys) : keys[n].code \in KeyCode

C10_Witness ==
    /\ pc = "done"
    /\ input = <<97, 44>>
    /\ calls = {65, 44}
    /\ mapRes.ok

\* Where the rendering of the n-th key starts in the rendering of a key
\* list: after the renderings of the n - 1 keys before it.
RECURSIVE ShownBefore(_, _)
ShownBefore(ks, n) ==
    IF n = 1 THEN 0 ELSE ShownBefore(ks, n - 1) + Len(DisplayKey(ks[n - 1]))

\* C11: when Keymap::new succeeds with Keymap m, m.to_string() is the
\* renderings of its keys one after the other in order with nothing in
\* between, Keymap::new succeeds on that string, and gives a Keymap of the
\* same length with equal Keys.
C11_SequenceRoundTrip ==
    LET m == mapRes.keys
    IN  /\ pc \in {"mapShown", "mapReparsed"} =>
              /\ Len(shownMap) = ShownBefore(m, Len(m) + 1)
              /\ \A n \in 1..Len(m) :
                    SubSeq(shownMap, ShownBefore(m, n) + 1, ShownBefore(m, n + 1))
                        = DisplayKey(m[n])
        /\ pc = "mapReparsed" =>
              /\ remapRes.ok
              /\ Len(remapRes.keys) = Len(m)
              /\ \A n \in 1..Len(m) : remapRes.keys[n] = m[n]

C11_Witness ==
    /\ pc = "mapReparsed"
    /\ input = Bracket(<<>>, StrCr) \o Bracket(<<83>>, Upper(StrSpace))
    /\ shownMap = <<LessThanSign, 67, 82, GreaterThanSign>>
                  \o <<LessThanSign, 115, HyphenMinus, 83, 80, 65, 67, 69, GreaterThanSign>>
    /\ remapRes = OkMap(<<KeyOf(Enter, None), KeyOf(Space, Shift)>>)

====
